---- MODULE Spec2Model ----
(***************************************************************************)
(* State machine of the SelectableSortable component of                    *)
(* stories/Sortable/MultipleItemDragging/MultipleItemDragging.story.tsx:   *)
(* the membership mapping `items`, the selection `selectedItems`, the      *)
(* rollback snapshot `clonedItems`, the active item `activeId`, the        *)
(* tracking container `activeContainerRef`, and the handlers that the      *)
(* DndContext and the click listeners invoke.                              *)
(*                                                                         *)
(* JavaScript values: null and undefined identifiers are the strings       *)
(* "null" and "undefined"; a nullable mapping is a sequence of length 0    *)
(* (null) or 1.  Array indices are 0-based as in the source.               *)
(***************************************************************************)
EXTENDS Integers, Sequences, FiniteSets, TLC

\* ---------------------------------------------------------------- bounds
\* items created per container (the itemCount prop)
ItemCount == 2
\* handler invocations explored in one behaviour
MaxEvents == 5
\* clicks that extend the selection are explored up to this selection length
MaxSelected == 2
\* largest left coordinate of the rectangles given to the collision detection
MaxCoord == 2
\* most droppable rectangles given to the collision detection
MaxRects == 3

\* ------------------------------------------------------------- constants
TRASH_DROPPABLE_ID == "trash"
NULL == "null"
UNDEFINED == "undefined"

\* Object.keys(items), in insertion order
ContainerKeys == <<"A", "B", "C", TRASH_DROPPABLE_ID>>
ContainerIds == {ContainerKeys[i] : i \in 1..Len(ContainerKeys)}

Digit(i) == <<"0", "1", "2", "3", "4">>[i + 1]
\* createRange(itemCount, (index) => `${prefix}${index}`)
createRange(prefix, n) == [i \in 1..n |-> prefix \o Digit(i - 1)]

InitialItems ==
  [k \in ContainerIds |->
     IF k = TRASH_DROPPABLE_ID THEN <<>> ELSE createRange(k, ItemCount)]

ItemIds == UNION {{InitialItems[k][i] : i \in 1..Len(InitialItems[k])} : k \in ContainerIds}

\* ------------------------------------------------------- array operations
Elems(s) == {s[i] : i \in 1..Len(s)}

Min(a, b) == IF a < b THEN a ELSE b
Max(a, b) == IF a > b THEN a ELSE b

\* Array.prototype.indexOf: 0-based index of the first occurrence, or -1
IndexOf(s, x) ==
  IF x \in Elems(s)
    THEN (CHOOSE i \in 1..Len(s) : s[i] = x /\ \A j \in 1..(i - 1) : s[j] # x) - 1
    ELSE -1

\* Array.prototype.includes
Includes(s, x) == x \in Elems(s)

\* array.filter((item) => item !== x)
Without(s, x) == SelectSeq(s, LAMBDA e : e # x)

\* relative start index of slice/splice: negative counts from the end, clamped
RelIndex(s, k) == IF k < 0 THEN Max(Len(s) + k, 0) ELSE Min(k, Len(s))

\* Array.prototype.slice(start, end), 0-based, end exclusive
Slice(s, start, end) ==
  LET a == RelIndex(s, start)
      b == RelIndex(s, end)
  IN  IF a >= b THEN <<>> ELSE SubSeq(s, a + 1, b)

\* array.splice(start, 0, ...elems): the array after the insertion
SpliceInsert(s, start, elems) ==
  LET a == RelIndex(s, start)
  IN  SubSeq(s, 1, a) \o elems \o SubSeq(s, a + 1, Len(s))

\* array.splice(start, 1): <<removed elements, array after the removal>>
SpliceRemoveOne(s, start) ==
  LET a == RelIndex(s, start)
  IN  IF a < Len(s)
        THEN <<(<<s[a + 1]>>), SubSeq(s, 1, a) \o SubSeq(s, a + 2, Len(s))>>
        ELSE <<(<<>>), s>>

\* arrayMove of @dnd-kit/sortable:
\*   const newArray = array.slice();
\*   newArray.splice(to < 0 ? newArray.length + to : to, 0,
\*                   newArray.splice(from, 1)[0]);
\* the target index is evaluated before the removal; a removal that takes
\* nothing yields undefined, which is then inserted.
arrayMove(array, from, to) ==
  LET target  == IF to < 0 THEN Len(array) + to ELSE to
      rem     == SpliceRemoveOne(array, from)
      moved   == IF Len(rem[1]) > 0 THEN rem[1][1] ELSE UNDEFINED
  IN  SpliceInsert(rem[2], target, <<moved>>)

\* ---------------------------------------------------- collision detection
\* a client rectangle
Rect(left, top, width, height) ==
  [left |-> left, top |-> top, width |-> width, height |-> height]

\* area of the intersection of two rectangles, 0 when they do not overlap
IntersectionArea(a, b) ==
  LET w == Min(a.left + a.width, b.left + b.width) - Max(a.left, b.left)
      h == Min(a.top + a.height, b.top + b.height) - Max(a.top, b.top)
  IN  IF w > 0 /\ h > 0 THEN w * h ELSE 0

\* square of twice the distance between the centers of two rectangles
CenterDistance(a, b) ==
  LET dx == (2 * a.left + a.width) - (2 * b.left + b.width)
      dy == (2 * a.top + a.height) - (2 * b.top + b.height)
  IN  dx * dx + dy * dy

\* rectIntersection of @dnd-kit/core: the identifier of the first entry of
\* largest overlap with the target, null when no entry overlaps it
rectIntersection(entries, target) ==
  LET idx == {i \in 1..Len(entries) : IntersectionArea(entries[i][2], target) > 0}
  IN  IF idx = {}
        THEN NULL
        ELSE entries[CHOOSE i \in idx :
                       \A j \in idx :
                         LET ai == IntersectionArea(entries[i][2], target)
                             aj == IntersectionArea(entries[j][2], target)
                         IN  ai > aj \/ (ai = aj /\ i <= j)][1]

\* closestRect of @dnd-kit/core: the identifier of the first entry whose
\* center is closest to the center of the target, null without entries
closestRect(entries, target) ==
  IF Len(entries) = 0
    THEN NULL
    ELSE entries[CHOOSE i \in 1..Len(entries) :
                   \A j \in 1..Len(entries) :
                     LET di == CenterDistance(entries[i][2], target)
                         dj == CenterDistance(entries[j][2], target)
                     IN  di < dj \/ (di = dj /\ i <= j)][1]

\* customCollisionDetectionStrategy without the filter of the other rectangles
customCollisionDetectionStrategy_NoFilter(clientRects, clientRect) ==
  LET trashRect == SelectSeq(clientRects, LAMBDA e : e[1] = TRASH_DROPPABLE_ID)
  IN  IF rectIntersection(trashRect, clientRect) # NULL
        THEN TRASH_DROPPABLE_ID
        ELSE closestRect(clientRects, clientRect)

\* customCollisionDetectionStrategy(clientRects, clientRect); clientRects is
\* an array of <<id, rectangle>> entries
customCollisionDetectionStrategy(clientRects, clientRect) ==
  LET trashRect == SelectSeq(clientRects, LAMBDA e : e[1] = TRASH_DROPPABLE_ID)
  IN  IF rectIntersection(trashRect, clientRect) # NULL
        THEN TRASH_DROPPABLE_ID
        ELSE LET otherRects == SelectSeq(clientRects, LAMBDA e : e[1] # TRASH_DROPPABLE_ID)
             IN  closestRect(otherRects, clientRect)

\* ------------------------------------------------------------------ state
VARIABLES
  items,               \* useState<Items>: container id -> array of item ids
  selectedItems,       \* useState<string[]>
  clonedItems,         \* useState<Items | null>: <<>> is null, <<m>> is m
  activeId,            \* useState<string | null>
  activeContainerRef,  \* useRef<string | undefined>: .current
  nEvents,             \* handler invocations so far
  ev,                  \* history: the last event delivered, and the active
                       \* item and tracking container it found
  startItems,          \* history: the mapping just before the last start event
  lostItems,           \* history: some gesture ended on the trash or with no
                       \* drop target
  collision            \* a call of the collision detection: its arguments
                       \* and its result

vars == <<items, selectedItems, clonedItems, activeId, activeContainerRef,
          nEvents, ev, startItems, lostItems, collision>>

\* findContainer, evaluated on the mapping its
findContainer(its, id) ==
  IF id \in DOMAIN its
    THEN id
    ELSE IF \E i \in 1..Len(ContainerKeys) : Includes(its[ContainerKeys[i]], id)
      THEN ContainerKeys[CHOOSE i \in 1..Len(ContainerKeys) :
                           /\ Includes(its[ContainerKeys[i]], id)
                           /\ \A j \in 1..(i - 1) : ~Includes(its[ContainerKeys[j]], id)]
      ELSE UNDEFINED

\* getIndex
getIndex(its, id) ==
  LET container == findContainer(its, id)
  IN  IF container = UNDEFINED THEN -1 ELSE IndexOf(its[container], id)

isItemSelected(sel, itemId) == Includes(sel, itemId)

Init ==
  /\ items = InitialItems
  /\ selectedItems = <<>>
  /\ clonedItems = <<>>
  /\ activeId = NULL
  /\ activeContainerRef = UNDEFINED
  /\ nEvents = 0
  /\ ev = [kind |-> "init", id |-> NULL, top |-> 0,
           active |-> NULL, from |-> UNDEFINED]
  /\ startItems = InitialItems
  /\ lostItems = FALSE
  /\ collision = [clientRects |-> <<>>, clientRect |-> Rect(0, 0, 2, 2), result |-> "pending"]

Tick == nEvents < MaxEvents /\ nEvents' = nEvents + 1

\* items the shell renders: those of the containers other than the trash
RenderedItems ==
  (UNION {Elems(items[k]) : k \in ContainerIds \ {TRASH_DROPPABLE_ID}}) \cap ItemIds

\* ----------------------------------------------------------- the handlers
\* SelectionAfter that appends the clicked item even when it is selected
SelectionAfter_AlwaysAppend(sel, id, isShiftSelect) ==
  IF isShiftSelect THEN Append(sel, id) ELSE <<>>

\* the selection that onSelectionChanged(id, isShiftSelect) sets
SelectionAfter(sel, id, isShiftSelect) ==
  IF isShiftSelect
    THEN IF isItemSelected(sel, id)
           THEN Without(sel, id)
           ELSE Append(sel, id)
    ELSE <<>>

\* onSelectionChanged(id, isShiftSelect), the onClick listener of an item
onSelectionChanged(id, isShiftSelect) ==
  /\ Tick
  /\ selectedItems' = SelectionAfter(selectedItems, id, isShiftSelect)
  /\ UNCHANGED <<items, clonedItems, activeId, activeContainerRef>>

\* clearSelection, the document click listener, for a click outside any item
clearSelection ==
  /\ Tick
  /\ selectedItems' = <<>>
  /\ UNCHANGED <<items, clonedItems, activeId, activeContainerRef>>

\* array[i], undefined when i is not an index of the array
ElemAt(s, i) == IF i >= 0 /\ i < Len(s) THEN s[i + 1] ELSE UNDEFINED

\* ReduceSelected that filters the active item out as well
RECURSIVE ReduceSelected_RemoveActive(_, _, _, _, _)
ReduceSelected_RemoveActive(ret, its, sel, i, active) ==
  IF i > Len(sel)
    THEN ret
    ELSE LET selectedItem == sel[i]
             container == findContainer(its, selectedItem)
             next == IF container = UNDEFINED
                       THEN ret
                       ELSE [ret EXCEPT ![container] = Without(@, selectedItem)]
         IN  ReduceSelected_RemoveActive(next, its, sel, i + 1, active)

\* the reducer of onDragStart: every selected item other than the active one
\* is filtered out of the container that findContainer (on the rendered
\* mapping its) reports for it
RECURSIVE ReduceSelected(_, _, _, _, _)
ReduceSelected(ret, its, sel, i, active) ==
  IF i > Len(sel)
    THEN ret
    ELSE LET selectedItem == sel[i]
             container == findContainer(its, selectedItem)
             next == IF selectedItem = active \/ container = UNDEFINED
                       THEN ret
                       ELSE [ret EXCEPT ![container] = Without(@, selectedItem)]
         IN  ReduceSelected(next, its, sel, i + 1, active)

\* onDragStart({active}); gestures are serialised by the input capture, so a
\* start arrives only when no session is active
onDragStart(active) ==
  /\ activeId = NULL
  /\ Tick
  /\ activeId' = active
  /\ clonedItems' = <<items>>
  /\ selectedItems' =
       IF Len(selectedItems) > 0 /\ ~isItemSelected(selectedItems, active)
         THEN Append(selectedItems, active)
         ELSE selectedItems
  /\ activeContainerRef' = findContainer(items, active)
  /\ items' =
       IF Len(selectedItems) > 0
         THEN ReduceSelected(items, items, selectedItems, 1, active)
         ELSE items

\* MoveAcross that leaves the active item in the container it comes from
MoveAcross_KeepSource(its, activeContainer, overContainer, active, over, draggingTop, overRect) ==
  LET overItems == its[overContainer]
      overIndex == IndexOf(overItems, over)
      isBelowLastItem ==
        /\ overIndex = Len(overItems) - 1
        /\ draggingTop > overRect.bottom - (overRect.height \div 2)
      newIndex == IF overIndex >= 0
                    THEN overIndex + (IF isBelowLastItem THEN 1 ELSE 0)
                    ELSE Len(overItems) + 1
  IN  [its EXCEPT
         ![overContainer] =
            Slice(overItems, 0, newIndex) \o <<active>>
              \o Slice(overItems, newIndex, Len(overItems))]

\* MoveAcross whose second slice starts one element too far, so that the
\* active item replaces the element at the insertion index
MoveAcross_SkipHovered(its, activeContainer, overContainer, active, over, draggingTop, overRect) ==
  LET overItems == its[overContainer]
      overIndex == IndexOf(overItems, over)
      isBelowLastItem ==
        /\ overIndex = Len(overItems) - 1
        /\ draggingTop > overRect.bottom - (overRect.height \div 2)
      newIndex == IF overIndex >= 0
                    THEN overIndex + (IF isBelowLastItem THEN 1 ELSE 0)
                    ELSE Len(overItems) + 1
  IN  [its EXCEPT
         ![activeContainer] = Without(its[activeContainer], active),
         ![overContainer] =
            Slice(overItems, 0, newIndex) \o <<active>>
              \o Slice(overItems, newIndex + 1, Len(overItems))]

\* MoveAcross that applies the below-midpoint modifier to every hovered item,
\* not only to the last one
MoveAcross_AlwaysBelow(its, activeContainer, overContainer, active, over, draggingTop, overRect) ==
  LET overItems == its[overContainer]
      overIndex == IndexOf(overItems, over)
      isBelow == draggingTop > overRect.bottom - (overRect.height \div 2)
      newIndex == IF overIndex >= 0
                    THEN overIndex + (IF isBelow THEN 1 ELSE 0)
                    ELSE Len(overItems) + 1
  IN  [its EXCEPT
         ![activeContainer] = Without(its[activeContainer], active),
         ![overContainer] =
            Slice(overItems, 0, newIndex) \o <<active>>
              \o Slice(overItems, newIndex, Len(overItems))]

\* the updater of onDragOver for a move from activeContainer to overContainer
MoveAcross(its, activeContainer, overContainer, active, over, draggingTop, overRect) ==
  LET activeItems == its[activeContainer]
      overItems == its[overContainer]
      activeIndex == IndexOf(activeItems, active)
      overIndex == IndexOf(overItems, over)
      isBelowLastItem ==
        /\ overIndex = Len(overItems) - 1
        /\ draggingTop > overRect.bottom - (overRect.height \div 2)
      modifier == IF isBelowLastItem THEN 1 ELSE 0
      newIndex == IF overIndex >= 0 THEN overIndex + modifier ELSE Len(overItems) + 1
  IN  [its EXCEPT
         ![activeContainer] = Without(its[activeContainer], active),
         ![overContainer] =
            Slice(its[overContainer], 0, newIndex)
              \o <<ElemAt(its[activeContainer], activeIndex)>>
              \o Slice(its[overContainer], newIndex, Len(its[overContainer]))]

\* onDragOver that does not update the tracking container
onDragOver_StaleRef(over, draggingTop, overRect) ==
  /\ Tick
  /\ LET overContainer == findContainer(items, over)
         activeContainer == activeContainerRef
     IN  IF over = NULL
           THEN UNCHANGED items
           ELSE IF overContainer = UNDEFINED \/ activeContainer = UNDEFINED \/ activeId = NULL
             THEN UNCHANGED items
             ELSE IF activeContainer # overContainer
               THEN items' = MoveAcross(items, activeContainer, overContainer,
                                        activeId, over, draggingTop, overRect)
               ELSE UNCHANGED items
  /\ UNCHANGED <<selectedItems, clonedItems, activeId, activeContainerRef>>

\* onDragOver({over, draggingRect})
onDragOver(over, draggingTop, overRect) ==
  /\ Tick
  /\ LET overContainer == findContainer(items, over)
         activeContainer == activeContainerRef
     IN  IF over = NULL
           THEN UNCHANGED <<items, activeContainerRef>>
           ELSE IF overContainer = UNDEFINED \/ activeContainer = UNDEFINED \/ activeId = NULL
             THEN UNCHANGED <<items, activeContainerRef>>
             ELSE IF activeContainer # overContainer
               THEN /\ activeContainerRef' = overContainer
                    /\ items' = MoveAcross(items, activeContainer, overContainer,
                                           activeId, over, draggingTop, overRect)
               ELSE UNCHANGED <<items, activeContainerRef>>
  /\ UNCHANGED <<selectedItems, clonedItems, activeId>>

\* CommitSelected without the splice of the other selected items
CommitSelected_NoSplice(its, sel, overContainer, active, activeIndex, overIndex) ==
  [its EXCEPT ![overContainer] = arrayMove(its[overContainer], activeIndex, overIndex)]

\* CommitSelected that splices the other selected items at overIndex
CommitSelected_SpliceBefore(its, sel, overContainer, active, activeIndex, overIndex) ==
  [its EXCEPT ![overContainer] =
     SpliceInsert(arrayMove(its[overContainer], activeIndex, overIndex),
                  overIndex,
                  Without(sel, active))]

\* CommitSelected that splices the whole selection, the active item included
CommitSelected_SpliceAll(its, sel, overContainer, active, activeIndex, overIndex) ==
  [its EXCEPT ![overContainer] =
     SpliceInsert(arrayMove(its[overContainer], activeIndex, overIndex),
                  overIndex + 1,
                  sel)]

\* the updater of onDragEnd when selectedItems is not empty
CommitSelected(its, sel, overContainer, active, activeIndex, overIndex) ==
  [its EXCEPT ![overContainer] =
     SpliceInsert(arrayMove(its[overContainer], activeIndex, overIndex),
                  overIndex + 1,
                  Without(sel, active))]

\* the updater of onDragEnd when selectedItems is empty
CommitSingle(its, overContainer, activeIndex, overIndex) ==
  [its EXCEPT ![overContainer] = arrayMove(its[overContainer], activeIndex, overIndex)]

\* EmptyTrash that leaves the trash as it is
EmptyTrash_Keep(its) == its

\* the updater of onDragEnd for a drop on the trash
EmptyTrash(its) == [its EXCEPT ![TRASH_DROPPABLE_ID] = <<>>]

\* EndWithoutTarget that rolls the mapping back to the snapshot
EndWithoutTarget_Rollback ==
  /\ activeId' = NULL
  /\ items' = IF Len(clonedItems) > 0 THEN clonedItems[1] ELSE items

\* the branch of onDragEnd for no drop target or no tracking container
EndWithoutTarget ==
  /\ activeId' = NULL
  /\ UNCHANGED items

\* onDragEnd({over})
onDragEnd(over) ==
  /\ Tick
  /\ IF activeId = NULL
       THEN UNCHANGED <<items, activeId>>
       ELSE LET activeContainer == activeContainerRef
            IN  IF over = NULL \/ activeContainer = UNDEFINED
                  THEN EndWithoutTarget
                  ELSE IF over = TRASH_DROPPABLE_ID
                    THEN /\ items' = EmptyTrash(items)
                         /\ activeId' = NULL
                    ELSE LET overContainer == findContainer(items, over)
                         IN  /\ IF overContainer # UNDEFINED
                                  THEN LET activeIndex == IndexOf(items[activeContainer], activeId)
                                           overIndex == IndexOf(items[overContainer], over)
                                       IN  IF Len(selectedItems) > 0
                                             THEN items' = CommitSelected(items, selectedItems, overContainer,
                                                                          activeId, activeIndex, overIndex)
                                             ELSE IF activeIndex # overIndex
                                               THEN items' = CommitSingle(items, overContainer,
                                                                          activeIndex, overIndex)
                                               ELSE UNCHANGED items
                                  ELSE UNCHANGED items
                             /\ activeId' = NULL
  /\ UNCHANGED <<selectedItems, clonedItems, activeContainerRef>>

\* onDragCancel that does not restore the snapshot
onDragCancel_NoRestore ==
  /\ Tick
  /\ activeId' = NULL
  /\ clonedItems' = <<>>
  /\ UNCHANGED <<items, selectedItems, activeContainerRef>>

\* onDragCancel()
onDragCancel ==
  /\ Tick
  /\ IF Len(clonedItems) > 0
       THEN items' = clonedItems[1]
       ELSE UNCHANGED items
  /\ activeId' = NULL
  /\ clonedItems' = <<>>
  /\ UNCHANGED <<selectedItems, activeContainerRef>>

\* ------------------------------------------------------- the environment
\* droppables the shell has mounted: the rendered items, the containers
\* without children, and the trash
EmptyContainers == {k \in ContainerIds \ {TRASH_DROPPABLE_ID} : items[k] = <<>>}
OverTargets == RenderedItems \cup EmptyContainers \cup {TRASH_DROPPABLE_ID, NULL}

\* drop targets an end event can carry.  While a session is active the
\* target has been reported by a move event before, so that it lies in the
\* tracking container ("both positions are already the same container at
\* this point"), or there is none; an end event outside a session is an
\* invalid phase transition and may carry any target
EndTargets ==
  IF activeId = NULL
    THEN OverTargets
    ELSE IF activeContainerRef = UNDEFINED
      THEN {NULL}
      ELSE {NULL} \cup {o \in (Elems(items[activeContainerRef]) \cap ItemIds) \cup {TRASH_DROPPABLE_ID} :
                          findContainer(items, o) = activeContainerRef}

\* draggingRect.top of a move event, and the clientRect of the hovered node
DraggingTops == {2, 4}
OverRect == [bottom |-> 4, height |-> 2]

Event(kind, id, top) ==
  [kind |-> kind, id |-> id, top |-> top,
   active |-> activeId, from |-> activeContainerRef]

\* a click on a rendered item, with or without the shift key, while no
\* gesture is in progress
Click ==
  /\ activeId = NULL
  /\ \E id \in RenderedItems, isShiftSelect \in BOOLEAN :
       /\ isShiftSelect /\ ~isItemSelected(selectedItems, id)
            => Len(selectedItems) < MaxSelected
       /\ onSelectionChanged(id, isShiftSelect)
       /\ ev' = Event(IF isShiftSelect THEN "shiftClick" ELSE "click", id, 0)
  /\ UNCHANGED <<startItems, lostItems, collision>>

ClickOutside ==
  /\ activeId = NULL
  /\ clearSelection
  /\ ev' = Event("clickOutside", NULL, 0)
  /\ UNCHANGED <<startItems, lostItems, collision>>

DragStart ==
  /\ \E active \in RenderedItems :
       /\ onDragStart(active)
       /\ ev' = Event("start", active, 0)
  /\ startItems' = items
  /\ UNCHANGED <<lostItems, collision>>

DragOver ==
  /\ \E over \in OverTargets, draggingTop \in DraggingTops :
       /\ onDragOver(over, draggingTop, OverRect)
       /\ ev' = Event("move", over, draggingTop)
  /\ UNCHANGED <<startItems, lostItems, collision>>

DragEnd ==
  /\ \E over \in EndTargets :
       /\ onDragEnd(over)
       /\ ev' = Event("end", over, 0)
       /\ lostItems' = (lostItems \/ (activeId # NULL /\ over \in {TRASH_DROPPABLE_ID, NULL}))
  /\ UNCHANGED <<startItems, collision>>

DragCancel ==
  /\ onDragCancel
  /\ ev' = Event("cancel", NULL, 0)
  /\ UNCHANGED <<startItems, lostItems, collision>>

Next ==
  \/ Click
  \/ ClickOutside
  \/ DragStart
  \/ DragOver
  \/ DragEnd
  \/ DragCancel

Spec == Init /\ [][Next]_vars

\* ------------------------------------- events with an unknown identifier
\* an identifier that is in no container and names no container
MissingId == "Z9"

StartMissing ==
  /\ onDragStart(MissingId)
  /\ ev' = Event("start", MissingId, 0)
  /\ startItems' = items
  /\ UNCHANGED <<lostItems, collision>>

OverMissing ==
  /\ \E draggingTop \in DraggingTops :
       /\ onDragOver(MissingId, draggingTop, OverRect)
       /\ ev' = Event("move", MissingId, draggingTop)
  /\ UNCHANGED <<startItems, lostItems, collision>>

EndMissing ==
  /\ onDragEnd(MissingId)
  /\ ev' = Event("end", MissingId, 0)
  /\ UNCHANGED <<startItems, lostItems, collision>>

NextMissing ==
  \/ Next
  \/ StartMissing
  \/ OverMissing
  \/ EndMissing

SpecMissing == Init /\ [][NextMissing]_vars

\* ------------------------------------- calls of the collision detection
\* rectangles of the droppables, and rectangles of the dragged node
DroppableRects ==
  {Rect(l, t, 2, 2) : l \in 0..MaxCoord, t \in {0, 2}}
DraggedRects ==
  {Rect(l, t, w, 2) : l \in 0..MaxCoord, t \in {0, 1}, w \in {1, 2}}

DroppableIds == {TRASH_DROPPABLE_ID, "A", "B"}

\* arrays of at most MaxRects entries with distinct identifiers
ClientRectArrays ==
  UNION {{e \in [1..n -> DroppableIds \X DroppableRects] :
            \A i, j \in 1..n : i # j => e[i][1] # e[j][1]} : n \in 0..MaxRects}

InitCollision ==
  /\ items = InitialItems
  /\ selectedItems = <<>>
  /\ clonedItems = <<>>
  /\ activeId = NULL
  /\ activeContainerRef = UNDEFINED
  /\ nEvents = 0
  /\ ev = [kind |-> "init", id |-> NULL, top |-> 0,
           active |-> NULL, from |-> UNDEFINED]
  /\ startItems = InitialItems
  /\ lostItems = FALSE
  /\ \E clientRects \in ClientRectArrays, clientRect \in DraggedRects :
       collision = [clientRects |-> clientRects, clientRect |-> clientRect,
                    result |-> "pending"]

Detect ==
  /\ collision.result = "pending"
  /\ collision' = [collision EXCEPT !.result =
                     customCollisionDetectionStrategy(collision.clientRects,
                                                      collision.clientRect)]
  /\ UNCHANGED <<items, selectedItems, clonedItems, activeId, activeContainerRef,
                 nEvents, ev, startItems, lostItems>>

NextCollision == Detect

SpecCollision == InitCollision /\ [][NextCollision]_vars

\* ------------------------------------------------------------ properties
\* number of places (container, index) at which the identifier x occurs
Occurrences(its, x) ==
  Cardinality({p \in ContainerIds \X (1..(3 * ItemCount + MaxEvents)) :
                 p[2] <= Len(its[p[1]]) /\ its[p[1]][p[2]] = x})

\* identifiers that occur in some container of the mapping
Present(its) == UNION {Elems(its[k]) : k \in ContainerIds}

\* s with x inserted so that x has the 0-based index i
InsertedAt(s, i, x) == SubSeq(s, 1, i) \o <<x>> \o SubSeq(s, i + 1, Len(s))

Idle == activeId = NULL

\* C1 (as stated): in every idle state every identifier of the original item
\* set occurs in exactly one container sequence, exactly once.
C1_Partition ==
  Idle => \A x \in ItemIds : Occurrences(items, x) = 1

\* C1 (amended): in every idle state no identifier of the original item set
\* occurs more than once, and one is missing from all containers only after
\* some gesture has ended on the trash or with no drop target.
C1_PartitionUnlessDiscarded ==
  Idle => \A x \in ItemIds :
            /\ Occurrences(items, x) <= 1
            /\ ~lostItems => Occurrences(items, x) = 1

\* an idle state reached by committing a multi-item move into another
\* container, no gesture having discarded anything
C1_Witness ==
  /\ Idle
  /\ ev.kind = "end"
  /\ ev.active # NULL
  /\ ~lostItems
  /\ Len(selectedItems) >= 2
  /\ \E k \in ContainerIds : Len(items[k]) > ItemCount

\* C2: a cancel event of an active session leaves the mapping equal to its
\* value just before the start event of that session, whatever the start
\* removed and the moves did in between.
C2_CancelRoundTrip ==
  [][(activeId # NULL /\ ev'.kind = "cancel") => items' = startItems]_vars

\* a session with a multi-item selection was cancelled while the active item
\* was in another container than the one it started in
C2_Witness ==
  /\ ev.kind = "cancel"
  /\ ev.active # NULL
  /\ Len(selectedItems) >= 2
  /\ ev.from # findContainer(items, ev.active)
  /\ items = startItems

\* C3 (as stated): a move, end or cancel event that arrives while no session
\* is active leaves the mapping and the selection unchanged.
C3_InvalidPhaseIgnored ==
  [][(activeId = NULL /\ ev'.kind \in {"move", "end", "cancel"})
       => (items' = items /\ selectedItems' = selectedItems)]_vars

\* C4: in every state no identifier of the original item set occurs more
\* than once across all container sequences.
C4_Uniqueness ==
  \A x \in ItemIds : Occurrences(items, x) <= 1

\* a session with a multi-item selection, started after an earlier gesture
\* was committed, whose active item has just been moved across containers
C4_Witness ==
  /\ activeId # NULL
  /\ ev.kind = "move"
  /\ ev.from # activeContainerRef
  /\ Len(selectedItems) >= 2
  /\ startItems # InitialItems

\* C5: right after an end event of an active session whose drop target is
\* the trash, the trash sequence is empty.
C5_TrashTerminal ==
  (ev.kind = "end" /\ ev.active # NULL /\ ev.id = TRASH_DROPPABLE_ID)
    => items[TRASH_DROPPABLE_ID] = <<>>

\* a gesture has ended on the trash, which held the active item just before:
\* the item is now in no container
C5_Witness ==
  /\ ev.kind = "end"
  /\ ev.id = TRASH_DROPPABLE_ID
  /\ ev.active # NULL
  /\ ev.from = TRASH_DROPPABLE_ID
  /\ ev.active \notin Present(items)
  /\ items[TRASH_DROPPABLE_ID] = <<>>

\* C6 (as stated): right after an end event of an active session whose drop
\* target is the trash, the selection is empty.
C6_SelectionClearedOnTrash ==
  (ev.kind = "end" /\ ev.active # NULL /\ ev.id = TRASH_DROPPABLE_ID)
    => selectedItems = <<>>

\* C7 (as stated): in every state, every selected identifier occurs in some
\* container sequence.
C7_SelectionSubset ==
  Elems(selectedItems) \subseteq Present(items)

\* the hovered item of the last move event was the last item of its container
\* and the dragged rectangle's top lay below its vertical midpoint
BelowLastItem(target) ==
  /\ IndexOf(startItems[target], ev.id) = Len(startItems[target]) - 1
  /\ ev.top > OverRect.bottom - (OverRect.height \div 2)

\* C8: with an empty selection, when the active item x has been dragged out of
\* its container S over the item at index i of another container T (not below
\* the last item) and the gesture ends on the droppable at index i of T, then
\* S is as before the gesture without x, T is as before with x at index i, and
\* every other container is as before.
C8_SingleItemMove ==
  [][(/\ activeId # NULL
      /\ selectedItems = <<>>
      /\ ev.kind = "move"
      /\ ev.id \in ItemIds
      /\ ev.from = findContainer(startItems, activeId)
      /\ ev.from # activeContainerRef
      /\ findContainer(startItems, ev.id) = activeContainerRef
      /\ ~BelowLastItem(activeContainerRef)
      /\ ev'.kind = "end"
      /\ ev'.id = ElemAt(items[activeContainerRef],
                         IndexOf(startItems[activeContainerRef], ev.id)))
     => LET S == ev.from
            T == activeContainerRef
            i == IndexOf(startItems[T], ev.id)
        IN  /\ items'[S] = Without(startItems[S], activeId)
            /\ items'[T] = InsertedAt(startItems[T], i, activeId)
            /\ \A k \in ContainerIds \ {S, T} : items'[k] = startItems[k]]_vars

\* a gesture without selection has ended on the active item's own droppable,
\* which is in another container than at the start and not the last there
C8_Witness ==
  /\ ev.kind = "end"
  /\ ev.active # NULL
  /\ ev.id = ev.active
  /\ selectedItems = <<>>
  /\ LET S == findContainer(startItems, ev.active)
         T == findContainer(items, ev.active)
     IN  /\ S # T
         /\ T = ev.from
         /\ IndexOf(items[T], ev.active) < Len(items[T]) - 1
         /\ items[S] = Without(startItems[S], ev.active)
         /\ startItems[T] = Without(items[T], ev.active)

C10_OriginalOrder ==
  (/\ ev.kind = "end"
   /\ ev.active # NULL
   /\ ev.id \in ItemIds
   /\ Len(selectedItems) > 0)
    => \A a, b \in Elems(Without(selectedItems, ev.active)) :
         \A k \in ContainerIds :
           (/\ Includes(startItems[k], a)
            /\ Includes(startItems[k], b)
            /\ IndexOf(startItems[k], a) < IndexOf(startItems[k], b))
             => LET T == findContainer(items, ev.active)
                IN  /\ Includes(items[T], a)
                    /\ Includes(items[T], b)
                    /\ IndexOf(items[T], a) < IndexOf(items[T], b)

\* C11: right after an end event on the trash of a session without selection,
\* the container S the active item started in is as before the gesture
\* without that item, the trash is empty, the item is in no container and
\* every other container is as before the gesture.
C11_TrashCommit ==
  (/\ ev.kind = "end"
   /\ ev.active # NULL
   /\ ev.id = TRASH_DROPPABLE_ID
   /\ selectedItems = <<>>)
    => LET S == findContainer(startItems, ev.active)
       IN  /\ items[S] = Without(startItems[S], ev.active)
           /\ items[TRASH_DROPPABLE_ID] = <<>>
           /\ ev.active \notin Present(items)
           /\ \A k \in ContainerIds \ {S, TRASH_DROPPABLE_ID} : items[k] = startItems[k]

\* a gesture without selection has ended on the trash, from a container that
\* keeps another item
C11_Witness ==
  /\ ev.kind = "end"
  /\ ev.active # NULL
  /\ ev.id = TRASH_DROPPABLE_ID
  /\ selectedItems = <<>>
  /\ ev.active \in Present(startItems)
  /\ items[findContainer(startItems, ev.active)] # <<>>

\* C12: an end event of a session with no other selected item, on a drop
\* target that lies in the tracking container at the index of the active
\* item, leaves the whole mapping as it is.
C12_NoOpDrop ==
  [][(/\ activeId # NULL
      /\ Without(selectedItems, activeId) = <<>>
      /\ ev'.kind = "end"
      /\ ev'.id \notin {NULL, TRASH_DROPPABLE_ID}
      /\ findContainer(items, ev'.id) = activeContainerRef
      /\ IndexOf(items[activeContainerRef], ev'.id)
           = IndexOf(items[activeContainerRef], activeId))
     => items' = items]_vars

\* a session in which only the active item is selected has ended on the
\* active item's own droppable, after a move across containers
C12_Witness ==
  /\ ev.kind = "end"
  /\ ev.active # NULL
  /\ ev.id = ev.active
  /\ selectedItems = <<ev.active>>
  /\ ev.from # findContainer(startItems, ev.active)
  /\ ev.from = findContainer(items, ev.active)

\* C15: a shift-click on an item adds it to the selection when it is absent
\* and removes it when it is present, the other selected items staying as
\* they were, so that a second shift-click on the same item gives the
\* previous selection again; a click without shift empties the selection.
C15_SelectionToggle ==
  [][/\ ev'.kind = "shiftClick"
          => /\ Elems(selectedItems') =
                  (IF ev'.id \in Elems(selectedItems)
                     THEN Elems(selectedItems) \ {ev'.id}
                     ELSE Elems(selectedItems) \cup {ev'.id})
             /\ Without(selectedItems', ev'.id) = Without(selectedItems, ev'.id)
             /\ Len(selectedItems') =
                  Len(selectedItems) + (IF ev'.id \in Elems(selectedItems) THEN -1 ELSE 1)
             /\ Elems(SelectionAfter(selectedItems', ev'.id, TRUE)) = Elems(selectedItems)
     /\ ev'.kind = "click" => selectedItems' = <<>>]_vars

\* a shift-click has removed an item from a selection that keeps another item
C15_Witness ==
  /\ ev.kind = "shiftClick"
  /\ ev.id \notin Elems(selectedItems)
  /\ selectedItems # <<>>

\* C16 (as stated): right after an end or cancel event of a session there is
\* no active item and no rollback snapshot.
C16_SessionTeardown ==
  (ev.kind \in {"end", "cancel"} /\ ev.active # NULL)
    => (activeId = NULL /\ clonedItems = <<>>)

\* C17: while a session is active the active item occurs exactly once, in the
\* tracking container; a move event whose resolved container differs from the
\* tracking container takes the active item out of the old tracking
\* container, puts it into the resolved one and makes that the tracking
\* container, and any other move event changes neither.
C17_TrackingContainer ==
  /\ [](activeId # NULL =>
          /\ Occurrences(items, activeId) = 1
          /\ activeContainerRef # UNDEFINED
          /\ Includes(items[activeContainerRef], activeId))
  /\ [][(activeId # NULL /\ ev'.kind = "move")
          => LET resolved == findContainer(items, ev'.id)
             IN  IF ev'.id # NULL /\ resolved # UNDEFINED /\ resolved # activeContainerRef
                   THEN /\ ~Includes(items'[activeContainerRef], activeId)
                        /\ Includes(items'[resolved], activeId)
                        /\ activeContainerRef' = resolved
                   ELSE /\ items' = items
                        /\ activeContainerRef' = activeContainerRef]_vars

\* the active item has been moved twice across containers in one session
C17_Witness ==
  /\ activeId # NULL
  /\ ev.kind = "move"
  /\ ev.from # activeContainerRef
  /\ ev.from # findContainer(startItems, activeId)
  /\ Includes(items[activeContainerRef], activeId)

\* C18: a start event with a non-empty selection takes every selected item
\* other than the active one out of all containers and leaves the remaining
\* items of every container in their order; with an empty selection it
\* leaves the mapping as it is.
C18_StartRemovesSelected ==
  [][ev'.kind = "start"
       => LET others == Elems(selectedItems) \ {ev'.id}
          IN  IF selectedItems # <<>>
                THEN \A k \in ContainerIds :
                       items'[k] = SelectSeq(items[k], LAMBDA e : e \notin others)
                ELSE items' = items]_vars

\* a session has started on a selected item while another item was selected:
\* the active item is in its container, the other one in none
C18_Witness ==
  /\ ev.kind = "start"
  /\ Len(selectedItems) >= 2
  /\ activeId \in Elems(selectedItems)
  /\ activeId \in Present(items)
  /\ \E x \in Elems(selectedItems) : x \in Present(startItems) \ Present(items)

\* C19: an end event of a session that carries no drop target leaves the
\* mapping as it was just before the event and ends the session.
C19_EndWithoutTarget ==
  [][(activeId # NULL /\ ev'.kind = "end" /\ ev'.id = NULL)
       => (items' = items /\ activeId' = NULL)]_vars

\* a session has ended without drop target after a move across containers,
\* and the mapping differs from the one before the gesture
C19_Witness ==
  /\ ev.kind = "end"
  /\ ev.id = NULL
  /\ ev.active # NULL
  /\ activeId = NULL
  /\ ev.from # findContainer(startItems, ev.active)
  /\ Includes(items[ev.from], ev.active)
  /\ items # startItems

\* C20: a move event that takes the active item into another container T puts
\* it at the index i of the hovered item, or at i + 1 exactly when that item
\* is the last of T and the dragged rectangle's top is below its vertical
\* midpoint; when the target is the surface of T it becomes the last element
\* of T; the previous items of T keep their order.
C20_InsertionIndex ==
  [][(activeId # NULL /\ ev'.kind = "move" /\ activeContainerRef' # activeContainerRef)
       => LET T == activeContainerRef'
              i == IndexOf(items[T], ev'.id)
              below == ev'.top > OverRect.bottom - (OverRect.height \div 2)
              expected == IF ev'.id = T
                            THEN Len(items[T])
                            ELSE IF i = Len(items[T]) - 1 /\ below THEN i + 1 ELSE i
          IN  items'[T] = InsertedAt(items[T], expected, activeId)]_vars

\* the active item has been inserted below the last item of another container
C20_Witness ==
  /\ activeId # NULL
  /\ ev.kind = "move"
  /\ ev.id \in ItemIds
  /\ ev.from # activeContainerRef
  /\ ev.top > OverRect.bottom - (OverRect.height \div 2)
  /\ LET T == items[activeContainerRef]
     IN  /\ Len(T) >= 2
         /\ T[Len(T)] = activeId
         /\ T[Len(T) - 1] = ev.id

\* the trash is registered and overlaps the dragged rectangle
TrashOverlaps(c) ==
  \E i \in 1..Len(c.clientRects) :
    /\ c.clientRects[i][1] = TRASH_DROPPABLE_ID
    /\ IntersectionArea(c.clientRects[i][2], c.clientRect) > 0

\* C13: the collision detection returns the trash identifier when a rectangle
\* registered under it overlaps the dragged rectangle, whatever the other
\* candidates are; otherwise it never returns the trash identifier: it
\* returns a candidate other than the trash whose center is closest to the
\* dragged rectangle's, or none when there is no other candidate.
C13_CollisionPriority ==
  collision.result # "pending"
    => LET others == {i \in 1..Len(collision.clientRects) :
                        collision.clientRects[i][1] # TRASH_DROPPABLE_ID}
       IN  IF TrashOverlaps(collision)
             THEN collision.result = TRASH_DROPPABLE_ID
             ELSE /\ collision.result # TRASH_DROPPABLE_ID
                  /\ others = {} => collision.result = NULL
                  /\ others # {} =>
                       \E i \in others :
                         /\ collision.result = collision.clientRects[i][1]
                         /\ \A j \in others :
                              CenterDistance(collision.clientRects[i][2], collision.clientRect)
                                <= CenterDistance(collision.clientRects[j][2], collision.clientRect)

\* the trash was returned although another candidate lies closer to the
\* dragged rectangle
C13_Witness ==
  /\ collision.result = TRASH_DROPPABLE_ID
  /\ \E i, j \in 1..Len(collision.clientRects) :
       /\ collision.clientRects[i][1] = TRASH_DROPPABLE_ID
       /\ collision.clientRects[j][1] # TRASH_DROPPABLE_ID
       /\ CenterDistance(collision.clientRects[j][2], collision.clientRect)
            < CenterDistance(collision.clientRects[i][2], collision.clientRect)

\* C14 (as stated): a start, move or end event whose identifier is in no
\* container and names no container leaves the mapping, the selection, the
\* snapshot, the active item and the tracking container as they are.
C14_LookupMissNoOp ==
  [][(ev'.kind \in {"start", "move", "end"} /\ ev'.id = MissingId)
       => UNCHANGED <<items, selectedItems, clonedItems, activeId, activeContainerRef>>]_vars

====
